---- MODULE Spec2Model ----
(***************************************************************************)
(* First-passage time densities of drift-diffusion models (ddm_fpt_lib.c). *)
(*                                                                         *)
(* A call of one library function is a run of the state machine: the       *)
(* precondition assert, the scratch allocations, the forward pass that     *)
(* builds the cumulative statistics, the filling of g1 and g2 one step k   *)
(* at a time, the release of the scratch arrays and the return.            *)
(*                                                                         *)
(* Numbers.  A C double is modelled by a fixed-point number: the integer n *)
(* stands for n / Scale.  Sums are exact, products and quotients are       *)
(* rounded toward zero, so a small enough product underflows to 0 as it    *)
(* does in the double format.  One extra value, NaN, stands for every      *)
(* non-finite result (0/0, x/0, sqrt of a negative number, an overflow);   *)
(* every comparison with NaN is false, as in IEEE 754.                     *)
(***************************************************************************)
EXTENDS Integers, Sequences, FiniteSets

\* ------------------------------------------------------------ bounds
\* one unit of the fixed-point format is 1 / Scale
Scale == 64
\* largest step count k_max / n_max of a solver call
MaxK == 3
\* largest length of the sequences given to mnorm and extend_vector
MaxN == 2
\* largest value of a C int of the model (INT_MAX scaled down)
IntMax == 127

\* ------------------------------------------------------- arithmetic
\* the non-finite double
NaN == 0 - 1000000000

\* largest finite magnitude, in units
NumMax == 700 * Scale

Abs(x) == IF x < 0 THEN 0 - x ELSE x

\* integer quotient rounded toward zero
TDiv(a, b) ==
  IF (a >= 0) = (b > 0) THEN Abs(a) \div Abs(b) ELSE 0 - (Abs(a) \div Abs(b))

\* a result outside the finite range is not finite
Fin(x) == IF x > NumMax \/ x < 0 - NumMax THEN NaN ELSE x

Add(a, b) == IF a = NaN \/ b = NaN THEN NaN ELSE Fin(a + b)
Sub(a, b) == IF a = NaN \/ b = NaN THEN NaN ELSE Fin(a - b)
Neg(a) == IF a = NaN THEN NaN ELSE 0 - a
Mul(a, b) == IF a = NaN \/ b = NaN THEN NaN ELSE Fin(TDiv(a * b, Scale))
Div(a, b) == IF a = NaN \/ b = NaN \/ b = 0 THEN NaN ELSE Fin(TDiv(a * Scale, b))
\* the value of the C int n as a double
Num(n) == n * Scale

\* a < b and a > b on doubles: false when either is NaN
Lt(a, b) == a # NaN /\ b # NaN /\ a < b
Gt(a, b) == a # NaN /\ b # NaN /\ a > b

MutMAX(a, b) == a
MAX(a, b) == IF Gt(a, b) THEN a ELSE b
MIN(a, b) == IF a < b THEN a ELSE b

PI == (355 * Scale) \div 113
TWOPI == Mul(Num(2), PI)
PISQR == Mul(PI, PI)
Half == Scale \div 2

\* sqrt of libm: the largest r with r * r <= x, in units
\* (by bisection: lo * lo <= n < hi * hi)
RECURSIVE ISqrt(_, _, _)
ISqrt(n, lo, hi) ==
  IF hi - lo <= 1 THEN lo
  ELSE LET mid == (lo + hi) \div 2
       IN  IF mid * mid <= n THEN ISqrt(n, mid, hi) ELSE ISqrt(n, lo, mid)
Sqrt(x) == IF x = NaN \/ x < 0 THEN NaN ELSE ISqrt(x * Scale, 0, NumMax)

\* exp of libm for an argument y in [0, 1): the Taylor polynomial of e^-y
ExpFrac(y) ==
  LET y2 == Mul(y, y)
      y3 == Mul(y2, y)
      y4 == Mul(y3, y)
  IN  Scale - y + TDiv(y2, 2) - TDiv(y3, 6) + TDiv(y4, 24)

\* e^-n for an integer n >= 0
RECURSIVE ExpInt(_)
ExpInt(n) == IF n = 0 THEN Scale ELSE (ExpInt(n - 1) * 1000 + 1359) \div 2718

\* e^-x for x >= 0: underflows to 0 for large x
ExpNeg(x) == Mul(ExpInt(x \div Scale), ExpFrac(x % Scale))

\* e^y for y in [0, 1), and e^n for an integer n >= 0
ExpFracUp(y) ==
  LET y2 == Mul(y, y)
      y3 == Mul(y2, y)
      y4 == Mul(y3, y)
  IN  Scale + y + TDiv(y2, 2) + TDiv(y3, 6) + TDiv(y4, 24)
RECURSIVE ExpIntUp(_)
ExpIntUp(n) == IF n = 0 THEN Scale ELSE (ExpIntUp(n - 1) * 2718) \div 1000

\* exp of libm: overflows above exp(6)
Exp(x) ==
  IF x = NaN THEN NaN
  ELSE IF x <= 0 THEN (IF 0 - x > 16 * Scale THEN 0 ELSE ExpNeg(0 - x))
  ELSE IF x > 6 * Scale THEN NaN
  ELSE Mul(ExpIntUp(x \div Scale), ExpFracUp(x % Scale))

\* log of libm: the smallest y with exp(y) >= x (by bisection:
\* exp(lo) < x <= exp(hi)); log(0) is not finite
RECURSIVE LogBis(_, _, _)
LogBis(x, lo, hi) ==
  IF hi - lo <= 1 THEN hi
  ELSE LET mid == (lo + hi) \div 2
       IN  IF Exp(mid) # NaN /\ Exp(mid) < x THEN LogBis(x, mid, hi)
           ELSE LogBis(x, lo, mid)
Log(x) ==
  IF x = NaN \/ x <= 0 THEN NaN ELSE LogBis(x, 0 - 17 * Scale, 7 * Scale)

\* sin of libm: the argument is reduced to [-PI/2, PI/2], then the Taylor
\* polynomial
Sin(x) ==
  IF x = NaN THEN NaN
  ELSE
    LET r0 == x % TWOPI
        r1 == IF r0 > PI THEN r0 - TWOPI ELSE r0
        r == IF r1 > PI \div 2 THEN PI - r1
             ELSE IF r1 < 0 - (PI \div 2) THEN 0 - PI - r1 ELSE r1
        r2 == Mul(r, r)
        r3 == Mul(r2, r)
        r5 == Mul(r3, r2)
        r7 == Mul(r5, r2)
    IN  r - TDiv(r3, 6) + TDiv(r5, 120) - TDiv(r7, 5040)

\* pow(t, -1.5) and pow(t, 3) of libm
PowNeg15(t) == Div(Num(1), Mul(t, Sqrt(t)))
Pow3(t) == Mul(Mul(t, t), t)

\* C int arithmetic: a result in range, and the two's complement wrap of one
\* that is not
InInt(n) == n >= 0 - IntMax - 1 /\ n <= IntMax
Wrap(n) == ((n + IntMax + 1) % (2 * (IntMax + 1))) - IntMax - 1

\* ------------------------------------------------------------ inputs
\* step sizes of the calls
DeltaTs == {Half}

\* a schedule of n values: base, base + slope, base + 2 slope, ...
Sched(n, base, slope) == [i \in 0 .. n - 1 |-> base + slope * i]

\* a schedule that stays at base for two steps and then rises by slope a step
Late(n, base, slope) ==
  [i \in 0 .. n - 1 |-> base + slope * (IF i > 1 THEN i - 1 ELSE 0)]

\* drift, variance and bound schedules of the general solvers
\* (ddm_fpt_full, ddm_fpt_full_leak): symmetric bounds b_lo = -b_up
GenArgs ==
  { [k_max |-> n, delta_t |-> dt, inv_leak |-> il, null |-> "none",
     mu |-> Sched(n, m, 0), sig2 |-> Sched(n, Scale, 0),
     b_up |-> Sched(n, Scale, sl), b_lo |-> Sched(n, 0 - Scale, 0 - sl),
     b_up_deriv |-> Sched(n, Div(sl, dt), 0),
     b_lo_deriv |-> Sched(n, Div(0 - sl, dt), 0)] :
    n \in 1 .. MaxK, dt \in DeltaTs, il \in {0, Scale},
    m \in {0, Scale}, sl \in {0, 2 * Scale, 0 - (Scale \div 4)} }

\* calls that break the asserted precondition
BadGenArgs ==
  LET ok == CHOOSE a \in GenArgs : a.k_max = 1 /\ a.inv_leak = 0
  IN  { [ok EXCEPT !.k_max = 0], [ok EXCEPT !.delta_t = 0],
        [ok EXCEPT !.inv_leak = 0 - Scale], [ok EXCEPT !.null = "sig2"],
        [ok EXCEPT !.null = "g1"] }

\* drift and bound schedules of ddm_fpt and ddm_fpt_w (mu a vector) and of
\* ddm_fpt_const_mu (mu a scalar); kw is the factor k of ddm_fpt_w
BndArgs ==
  UNION { { [k_max |-> n, delta_t |-> dt, null |-> "none", mu0 |-> m,
             kw |-> kw, mu |-> Sched(n, m, 0), bound |-> b] :
            dt \in DeltaTs, m \in {Half, Scale},
            kw \in {Scale, 0 - (Scale \div 4)},
            b \in {Sched(n, Scale, 0), Sched(n, Scale, 2 * Scale),
                   Sched(n, Scale, 0 - (Scale \div 4)),
                   Late(n, Scale, 2 * Scale)} } :
          n \in 1 .. MaxK }

BadBndArgs ==
  LET ok == CHOOSE a \in BndArgs : a.k_max = 1 /\ a.kw = Scale
  IN  { [ok EXCEPT !.k_max = 0], [ok EXCEPT !.delta_t = 0 - Half],
        [ok EXCEPT !.null = "bound"], [ok EXCEPT !.null = "g2"],
        [ok EXCEPT !.mu0 = 0] }

\* values of the elements of the sequences given to mnorm and extend_vector
Elems == {0 - Half, 0, Scale, 3 * Scale}

\* the sequences of length n over Elems, indexed from 0
Vectors(n) == [0 .. n - 1 -> Elems]

\* calls of mnorm on two sequences of length n
MnormArgs ==
  UNION { { [n |-> n, delta_t |-> dt, null |-> "none", g1 |-> x, g2 |-> y] :
            dt \in {Half, Scale}, x \in Vectors(n), y \in Vectors(n) } :
          n \in 1 .. MaxN }

\* calls of mnorm with a count or step size that is not positive, or no buffer
BadMnormArgs ==
  LET ok == CHOOSE a \in MnormArgs : a.n = 1 /\ a.g1[0] = Scale
  IN  { [ok EXCEPT !.n = 0], [ok EXCEPT !.delta_t = 0],
        [ok EXCEPT !.null = "g1"] }

\* calls of extend_vector on a sequence of length v_size
ExtendArgs ==
  UNION { { [v |-> x, v_size |-> n, new_size |-> m, fill_el |-> el,
             null |-> "none"] :
            x \in Vectors(n), m \in 1 .. MaxN + 1, el \in {Half} } :
          n \in 1 .. MaxN }

BadExtendArgs ==
  LET ok == CHOOSE a \in ExtendArgs : a.v_size = 1 /\ a.new_size = 1
  IN  { [ok EXCEPT !.new_size = 0], [ok EXCEPT !.null = "v"] }

\* arguments of ddm_fpt_const
ConstArgs ==
  [mu0 : {Half, Scale}, bound0 : {Scale, 2 * Scale}, delta_t : DeltaTs,
   k_max : 1 .. MaxK, null : {"none"}]
BadConstArgs ==
  {[mu0 |-> 0, bound0 |-> Scale, delta_t |-> Half, k_max |-> 1, null |-> "none"],
   [mu0 |-> Scale, bound0 |-> 0, delta_t |-> Half, k_max |-> 1, null |-> "none"],
   [mu0 |-> Scale, bound0 |-> Scale, delta_t |-> 0, k_max |-> 1, null |-> "none"],
   [mu0 |-> Scale, bound0 |-> Scale, delta_t |-> Half, k_max |-> 0, null |-> "none"],
   [mu0 |-> Scale, bound0 |-> Scale, delta_t |-> Half, k_max |-> 1, null |-> "g1"]}

\* ------------------------------------------------------------- state
VARIABLES
  fn,     \* the function being called, "none" before the call
  pc,     \* the position in it
  arg,    \* its arguments
  heap,   \* scratch array -> "unalloc", "live", "null" (malloc failed), "freed"
  nfree,  \* scratch array -> number of times free() was given its live block
  scr,    \* scratch array -> its elements
  g1, g2, \* the output arrays of the caller
  wr1, wr2, \* index -> number of stores to g1[index], g2[index] by this call
  k,      \* the outer loop index of the filling pass
  ret,    \* the return value ("0", "-1", ...), "none" while the call runs
  ub,     \* the undefined behaviour met so far
  ser     \* the series being summed: its locals and, at the end, its value

vars == <<fn, pc, arg, heap, nfree, scr, g1, g2, wr1, wr2, k, ret, ub, ser>>

\* what the caller's output arrays hold before the call
Stale == 0 - 1

\* values an out-of-bounds or uninitialised read can produce
Garbage == {0, 1, Scale, 0 - Scale, NaN}

Names == {"cum_mu", "cum_sig2", "disc", "disc2", "bound_deriv",
          "norm_sqrt_t", "norm_t", "a2", "A", "new_v"}

Init ==
  /\ fn = "none"
  /\ pc = "idle"
  /\ arg = [k_max |-> 0]
  /\ heap = [n \in Names |-> "unalloc"]
  /\ nfree = [n \in Names |-> 0]
  /\ scr = [n \in Names |-> <<>>]
  /\ g1 = <<>>
  /\ g2 = <<>>
  /\ wr1 = <<>>
  /\ wr2 = <<>>
  /\ k = 0
  /\ ret = "none"
  /\ ub = {}
  /\ ser = [f |-> "none"]

\* --------------------------------------------- allocation and release
full_scratch == <<"cum_mu", "cum_sig2">>
full_checked == {"cum_mu", "cum_sig2"}
full_leak_scratch == <<"cum_mu", "cum_sig2", "disc", "disc2">>
full_leak_checked == {"cum_mu", "cum_sig2"}

fpt_scratch == <<"cum_mu", "bound_deriv", "norm_sqrt_t", "norm_t">>
fpt_checked == {"cum_mu", "bound_deriv", "norm_sqrt_t", "norm_t"}
const_mu_scratch == <<"bound_deriv", "norm_sqrt_t", "norm_t">>
const_mu_checked == {"bound_deriv", "norm_sqrt_t", "norm_t"}
w_scratch == <<"a2", "A", "bound_deriv">>
w_checked == {"a2", "A", "bound_deriv"}

Solvers == {"ddm_fpt_full", "ddm_fpt_full_leak", "ddm_fpt",
            "ddm_fpt_const_mu", "ddm_fpt_w"}

\* the arrays a function allocates, in the order it allocates them
Scratch(f) ==
  CASE f = "ddm_fpt_full" -> full_scratch
    [] f = "ddm_fpt_full_leak" -> full_leak_scratch
    [] f = "ddm_fpt" -> fpt_scratch
    [] f = "ddm_fpt_const_mu" -> const_mu_scratch
    [] f = "ddm_fpt_w" -> w_scratch
    [] f = "extend_vector" -> <<"new_v">>
    [] OTHER -> <<>>

\* the scratch pointers its allocation test compares with NULL
Checked(f) ==
  CASE f = "ddm_fpt_full" -> full_checked
    [] f = "ddm_fpt_full_leak" -> full_leak_checked
    [] f = "ddm_fpt" -> fpt_checked
    [] f = "ddm_fpt_const_mu" -> const_mu_checked
    [] f = "ddm_fpt_w" -> w_checked
    [] OTHER -> {}

Range(s) == {s[i] : i \in 1 .. Len(s)}

\* free(p) of every scratch pointer: a no-op on NULL
FreeAll(f) ==
  /\ heap' = [n \in Names |->
               IF n \in Range(Scratch(f)) /\ heap[n] = "live" THEN "freed"
               ELSE heap[n]]
  /\ nfree' = [n \in Names |->
                IF n \in Range(Scratch(f)) /\ heap[n] \in {"live", "freed"}
                THEN nfree[n] + 1 ELSE nfree[n]]

\* the assert at the head of the general solvers
full_assert(a) ==
  /\ a.null \notin {"mu", "sig2", "b_lo", "b_up", "b_lo_deriv", "b_up_deriv",
                    "g1", "g2"}
  /\ a.delta_t > 0
  /\ a.k_max > 0

full_leak_assert(a) ==
  /\ a.null \notin {"mu", "sig2", "b_lo", "b_up", "b_lo_deriv", "b_up_deriv",
                    "g1", "g2"}
  /\ a.inv_leak >= 0
  /\ a.delta_t > 0
  /\ a.k_max > 0

fpt_assert(a) ==
  /\ a.null \notin {"mu", "bound", "g1", "g2"}
  /\ a.delta_t > 0
  /\ a.k_max > 0

const_mu_assert(a) ==
  /\ a.mu0 > 0
  /\ a.null \notin {"bound", "g1", "g2"}
  /\ a.delta_t > 0
  /\ a.k_max > 0

w_assert(a) ==
  /\ a.null \notin {"mu", "bound", "g1", "g2"}
  /\ a.delta_t > 0
  /\ a.k_max > 0

\* the caller's output arrays on entry
Outputs(n) == [i \in 0 .. n - 1 |-> Stale]
NoWrites(n) == [i \in 0 .. n - 1 |-> 0]

\* entry of a solver: the assert aborts the call or lets it allocate
Enter(f, a, n, ok) ==
  /\ pc = "idle"
  /\ fn' = f
  /\ arg' = a
  /\ g1' = Outputs(n)
  /\ g2' = Outputs(n)
  /\ wr1' = NoWrites(n)
  /\ wr2' = NoWrites(n)
  /\ pc' = IF ok THEN "malloc" ELSE "aborted"
  /\ UNCHANGED <<heap, nfree, scr, k, ret, ub, ser>>

ddm_fpt_full_call ==
  \E a \in GenArgs \cup BadGenArgs :
    a.inv_leak = 0 /\ Enter("ddm_fpt_full", a, a.k_max, full_assert(a))

ddm_fpt_full_leak_call ==
  \E a \in GenArgs \cup BadGenArgs :
    Enter("ddm_fpt_full_leak", a, a.k_max, full_leak_assert(a))

ddm_fpt_call ==
  \E a \in BndArgs \cup BadBndArgs :
    a.mu0 # 0 /\ a.kw = Scale /\ Enter("ddm_fpt", a, a.k_max, fpt_assert(a))

ddm_fpt_const_mu_call ==
  \E a \in BndArgs \cup BadBndArgs :
    /\ a.null # "mu"
    /\ a.kw = Scale
    /\ Enter("ddm_fpt_const_mu", a, a.k_max, const_mu_assert(a))

ddm_fpt_w_call ==
  \E a \in BndArgs \cup BadBndArgs :
    a.mu0 # 0 /\ Enter("ddm_fpt_w", a, a.k_max, w_assert(a))

\* the next malloc of the allocation block: it succeeds or returns NULL
Malloc ==
  /\ pc = "malloc"
  /\ k < Len(Scratch(fn))
  /\ \E got \in {"live", "null"} :
       heap' = [heap EXCEPT ![Scratch(fn)[k + 1]] = got]
  /\ k' = k + 1
  /\ UNCHANGED <<fn, pc, arg, nfree, scr, g1, g2, wr1, wr2, ret, ub, ser>>

\* the test after the allocation block: free everything and return -1
AllocFailed ==
  /\ fn \in Solvers
  /\ pc = "malloc"
  /\ k = Len(Scratch(fn))
  /\ \E n \in Checked(fn) : heap[n] = "null"
  /\ FreeAll(fn)
  /\ ret' = "-1"
  /\ pc' = "done"
  /\ UNCHANGED <<fn, arg, scr, g1, g2, wr1, wr2, k, ub, ser>>

AllocPassed ==
  /\ fn \in Solvers
  /\ pc = "malloc"
  /\ k = Len(Scratch(fn))
  /\ \A n \in Checked(fn) : heap[n] # "null"
  /\ pc' = "cum"
  /\ k' = 0
  /\ UNCHANGED <<fn, arg, heap, nfree, scr, g1, g2, wr1, wr2, ret, ub, ser>>

\* ------------------------------------------------------ ddm_fpt_full
\* 1 / sqrt(2 * PI)
sqrt_2_pi == Div(Num(1), Sqrt(Mul(Num(2), PI)))

\* curr_cum += delta_t * x[j], for j = 0 .. i
RECURSIVE CumSum(_, _, _)
CumSum(x, dt, i) ==
  IF i = 0 THEN Mul(dt, x[0]) ELSE Add(CumSum(x, dt, i - 1), Mul(dt, x[i]))

\* g[j] * exp(-0.5 * diff * diff / csd) * (deriv - sig2_k * diff / csd)
Kernel(gj, diff, deriv, sig2_k, csd) ==
  Mul(Mul(gj, Exp(Div(Mul(Mul(Neg(Half), diff), diff), csd))),
      Sub(deriv, Div(Mul(sig2_k, diff), csd)))

\* the "initial values" of g1_k and g2_k at step kk
full_init(a, c, kk) ==
  LET sig2_k == a.sig2[kk]
      b_up_k == a.b_up[kk]
      b_lo_k == a.b_lo[kk]
      cum_mu_k == c.cum_mu[kk]
      cum_sig2_k == c.cum_sig2[kk]
      sqrt_cum_sig2_k == Sqrt(cum_sig2_k)
      b_up_deriv_k == Sub(a.b_up_deriv[kk], a.mu[kk])
      b_lo_deriv_k == Sub(a.b_lo_deriv[kk], a.mu[kk])
  IN  [g1 |-> Kernel(Div(Neg(sqrt_2_pi), sqrt_cum_sig2_k),
                     Sub(b_up_k, cum_mu_k), b_up_deriv_k, sig2_k, cum_sig2_k),
       g2 |-> Kernel(Div(sqrt_2_pi, sqrt_cum_sig2_k),
                     Sub(b_lo_k, cum_mu_k), b_lo_deriv_k, sig2_k, cum_sig2_k)]

\* g1_k and g2_k at step kk after the inner iterations j = 0 .. n - 1
RECURSIVE full_raw(_, _, _, _, _, _)
full_raw(a, c, G1, G2, kk, n) ==
  IF n = 0 THEN full_init(a, c, kk)
  ELSE
    LET p == full_raw(a, c, G1, G2, kk, n - 1)
        j == n - 1
        sig2_k == a.sig2[kk]
        b_up_k == a.b_up[kk]
        b_lo_k == a.b_lo[kk]
        b_up_deriv_k == Sub(a.b_up_deriv[kk], a.mu[kk])
        b_lo_deriv_k == Sub(a.b_lo_deriv[kk], a.mu[kk])
        delta_t_sqrt_2_pi == Mul(a.delta_t, sqrt_2_pi)
        cum_sig2_diff_j == Sub(c.cum_sig2[kk], c.cum_sig2[j])
        sqrt_cum_sig2_diff_j == Sqrt(cum_sig2_diff_j)
        cum_mu_diff_j == Sub(c.cum_mu[j], c.cum_mu[kk])
        b_up_k_up_j_diff == Add(Sub(b_up_k, a.b_up[j]), cum_mu_diff_j)
        b_up_k_lo_j_diff == Add(Sub(b_up_k, a.b_lo[j]), cum_mu_diff_j)
        b_lo_k_up_j_diff == Add(Sub(b_lo_k, a.b_up[j]), cum_mu_diff_j)
        b_lo_k_lo_j_diff == Add(Sub(b_lo_k, a.b_lo[j]), cum_mu_diff_j)
        w == Div(delta_t_sqrt_2_pi, sqrt_cum_sig2_diff_j)
    IN  [g1 |-> Add(p.g1, Mul(w,
                  Add(Kernel(G1[j], b_up_k_up_j_diff, b_up_deriv_k, sig2_k,
                             cum_sig2_diff_j),
                      Kernel(G2[j], b_up_k_lo_j_diff, b_up_deriv_k, sig2_k,
                             cum_sig2_diff_j)))),
         g2 |-> Sub(p.g2, Mul(w,
                  Add(Kernel(G1[j], b_lo_k_up_j_diff, b_lo_deriv_k, sig2_k,
                             cum_sig2_diff_j),
                      Kernel(G2[j], b_lo_k_lo_j_diff, b_lo_deriv_k, sig2_k,
                             cum_sig2_diff_j))))]

\* the cumulative sums of ddm_fpt_full
full_cum(a) ==
  [cum_mu |-> [j \in 0 .. a.k_max - 1 |-> CumSum(a.mu, a.delta_t, j)],
   cum_sig2 |-> [j \in 0 .. a.k_max - 1 |-> CumSum(a.sig2, a.delta_t, j)]]

\* g1 and g2 of ddm_fpt_full after the steps k = 0 .. n - 1
RECURSIVE full_upto(_, _)
full_upto(a, n) ==
  IF n = 0 THEN [g1 |-> Outputs(a.k_max), g2 |-> Outputs(a.k_max)]
  ELSE
    LET p == full_upto(a, n - 1)
        raw == full_raw(a, full_cum(a), p.g1, p.g2, n - 1, n - 1)
    IN  [g1 |-> [p.g1 EXCEPT ![n - 1] = MAX(raw.g1, 0)],
         g2 |-> [p.g2 EXCEPT ![n - 1] = MAX(raw.g2, 0)]]

\* g1 and g2 when ddm_fpt_full returns 0
ddm_fpt_full(a) == full_upto(a, a.k_max)

\* the forward pass of ddm_fpt_full
ddm_fpt_full_cum ==
  /\ fn = "ddm_fpt_full"
  /\ pc = "cum"
  /\ scr' = [scr EXCEPT !["cum_mu"] = full_cum(arg).cum_mu,
                        !["cum_sig2"] = full_cum(arg).cum_sig2]
  /\ pc' = "fill"
  /\ UNCHANGED <<fn, arg, heap, nfree, g1, g2, wr1, wr2, k, ret, ub, ser>>

\* one store g[kk] = v of the filling pass
MutStore(g, wr, kk, v) ==
  [g |-> g, wr |-> [wr EXCEPT ![kk] = wr[kk] + 1]]
Store(g, wr, kk, v) ==
  [g |-> [g EXCEPT ![kk] = v], wr |-> [wr EXCEPT ![kk] = wr[kk] + 1]]

\* one step k of the filling pass: the raw values are clamped and stored
Fill(raw) ==
  /\ g1' = Store(g1, wr1, k, MAX(raw.g1, 0)).g
  /\ wr1' = Store(g1, wr1, k, MAX(raw.g1, 0)).wr
  /\ g2' = Store(g2, wr2, k, MAX(raw.g2, 0)).g
  /\ wr2' = Store(g2, wr2, k, MAX(raw.g2, 0)).wr
  /\ k' = k + 1
  /\ pc' = IF k + 1 < arg.k_max THEN "fill" ELSE "free"

ddm_fpt_full_fill ==
  /\ fn = "ddm_fpt_full"
  /\ pc = "fill"
  /\ Fill(full_raw(arg, scr, g1, g2, k, k))
  /\ UNCHANGED <<fn, arg, heap, nfree, scr, ret, ub, ser>>

\* ------------------------------------------------- ddm_fpt_full_leak
\* exp(- delta_t * inv_leak) and exp(- 2 * delta_t * inv_leak)
exp_leak(a) == Exp(Mul(Neg(a.delta_t), a.inv_leak))
exp2_leak(a) == Exp(Mul(Mul(Neg(Num(2)), a.delta_t), a.inv_leak))

\* curr_cum = e * curr_cum + delta_t * x[j], for j = 0 .. i
RECURSIVE CumLeak(_, _, _, _)
CumLeak(x, dt, e, i) ==
  IF i = 0 THEN Mul(dt, x[0])
  ELSE Add(Mul(e, CumLeak(x, dt, e, i - 1)), Mul(dt, x[i]))

\* curr_disc *= e, i times, starting from d
RECURSIVE Discount(_, _, _)
Discount(d, e, i) == IF i = 0 THEN d ELSE Mul(Discount(d, e, i - 1), e)

\* a read of v[i], v of size n: outside 0 .. n - 1 it yields what lies there
Rd(v, n, i, garb) == IF i \in 0 .. n - 1 THEN v[i] ELSE garb

\* k = (int) floor(((double) (k_max - 1)) / 2)
half_k(a) == (a.k_max - 1) \div 2

\* the cumulative sums and the discount arrays of ddm_fpt_full_leak
full_leak_cum(a, garb) ==
  LET n == a.k_max
      disc == [j \in 0 .. n - 1 |-> Discount(exp_leak(a), exp_leak(a), j)]
      kh == half_k(a)
      head == [j \in 0 .. kh |-> Rd(disc, n, 2 * j + 1, garb)]
  IN  [cum_mu |-> [j \in 0 .. n - 1 |->
                    CumLeak(a.mu, a.delta_t, exp_leak(a), j)],
       cum_sig2 |-> [j \in 0 .. n - 1 |->
                      CumLeak(a.sig2, a.delta_t, exp2_leak(a), j)],
       disc |-> disc,
       disc2 |-> [j \in 0 .. n - 1 |->
                   IF j <= kh THEN head[j]
                   ELSE Discount(head[kh], exp2_leak(a), j - kh)]]

\* the indices of disc the copy disc2[j] = disc[2 * j + 1] reads
full_leak_copy_reads(a) == {2 * j + 1 : j \in 0 .. half_k(a)}

\* the indices of disc and of disc2 the kernel of step kk reads:
\* disc[k - j - 1] and disc2[k - j - 1] for j < k
full_leak_kernel_reads(kk) == {kk - j - 1 : j \in 0 .. kk - 1}

\* the forward pass of ddm_fpt_full_leak.  Writing through a NULL disc or
\* disc2 and reading disc beyond its end are undefined: the call is killed,
\* or goes on with whatever the read yields.
ddm_fpt_full_leak_cum ==
  /\ fn = "ddm_fpt_full_leak"
  /\ pc = "cum"
  /\ LET nullp == heap["disc"] = "null" \/ heap["disc2"] = "null"
         oob == \E i \in full_leak_copy_reads(arg) : i > arg.k_max - 1
     IN  /\ ub' = ub \cup (IF nullp THEN {"null dereference"} ELSE {})
                     \cup (IF oob THEN {"read out of bounds"} ELSE {})
         /\ \/ /\ nullp \/ oob
               /\ pc' = "crashed"
               /\ scr' = scr
            \/ /\ \E garb \in (IF oob THEN Garbage ELSE {0}) :
                    scr' = [scr EXCEPT
                      !["cum_mu"] = full_leak_cum(arg, garb).cum_mu,
                      !["cum_sig2"] = full_leak_cum(arg, garb).cum_sig2,
                      !["disc"] = full_leak_cum(arg, garb).disc,
                      !["disc2"] = full_leak_cum(arg, garb).disc2]
               /\ pc' = "fill"
  /\ UNCHANGED <<fn, arg, heap, nfree, g1, g2, wr1, wr2, k, ret, ser>>

full_leak_init(a, c, kk) ==
  LET sig2_k == a.sig2[kk]
      b_up_k == a.b_up[kk]
      b_lo_k == a.b_lo[kk]
      cum_mu_k == c.cum_mu[kk]
      cum_sig2_k == c.cum_sig2[kk]
      sqrt_cum_sig2_k == Sqrt(cum_sig2_k)
      b_up_deriv_k ==
        Sub(Add(a.b_up_deriv[kk], Mul(a.inv_leak, b_up_k)), a.mu[kk])
      b_lo_deriv_k ==
        Sub(Add(a.b_lo_deriv[kk], Mul(a.inv_leak, b_lo_k)), a.mu[kk])
  IN  [g1 |-> Kernel(Div(Neg(sqrt_2_pi), sqrt_cum_sig2_k),
                     Sub(b_up_k, cum_mu_k), b_up_deriv_k, sig2_k, cum_sig2_k),
       g2 |-> Kernel(Div(sqrt_2_pi, sqrt_cum_sig2_k),
                     Sub(b_lo_k, cum_mu_k), b_lo_deriv_k, sig2_k, cum_sig2_k)]

RECURSIVE full_leak_raw(_, _, _, _, _, _)
full_leak_raw(a, c, G1, G2, kk, n) ==
  IF n = 0 THEN full_leak_init(a, c, kk)
  ELSE
    LET p == full_leak_raw(a, c, G1, G2, kk, n - 1)
        j == n - 1
        sig2_k == a.sig2[kk]
        b_up_k == a.b_up[kk]
        b_lo_k == a.b_lo[kk]
        b_up_deriv_k ==
          Sub(Add(a.b_up_deriv[kk], Mul(a.inv_leak, b_up_k)), a.mu[kk])
        b_lo_deriv_k ==
          Sub(Add(a.b_lo_deriv[kk], Mul(a.inv_leak, b_lo_k)), a.mu[kk])
        delta_t_sqrt_2_pi == Mul(a.delta_t, sqrt_2_pi)
        disc_j == c.disc[kk - j - 1]
        cum_sig2_diff_j ==
          Sub(c.cum_sig2[kk], Mul(c.disc2[kk - j - 1], c.cum_sig2[j]))
        sqrt_cum_sig2_diff_j == Sqrt(cum_sig2_diff_j)
        cum_mu_diff_j == Sub(Mul(disc_j, c.cum_mu[j]), c.cum_mu[kk])
        b_up_k_up_j_diff ==
          Add(Sub(b_up_k, Mul(disc_j, a.b_up[j])), cum_mu_diff_j)
        b_up_k_lo_j_diff ==
          Add(Sub(b_up_k, Mul(disc_j, a.b_lo[j])), cum_mu_diff_j)
        b_lo_k_up_j_diff ==
          Add(Sub(b_lo_k, Mul(disc_j, a.b_up[j])), cum_mu_diff_j)
        b_lo_k_lo_j_diff ==
          Add(Sub(b_lo_k, Mul(disc_j, a.b_lo[j])), cum_mu_diff_j)
        w == Div(delta_t_sqrt_2_pi, sqrt_cum_sig2_diff_j)
    IN  [g1 |-> Add(p.g1, Mul(w,
                  Add(Kernel(G1[j], b_up_k_up_j_diff, b_up_deriv_k, sig2_k,
                             cum_sig2_diff_j),
                      Kernel(G2[j], b_up_k_lo_j_diff, b_up_deriv_k, sig2_k,
                             cum_sig2_diff_j)))),
         g2 |-> Sub(p.g2, Mul(w,
                  Add(Kernel(G1[j], b_lo_k_up_j_diff, b_lo_deriv_k, sig2_k,
                             cum_sig2_diff_j),
                      Kernel(G2[j], b_lo_k_lo_j_diff, b_lo_deriv_k, sig2_k,
                             cum_sig2_diff_j))))]

ddm_fpt_full_leak_fill ==
  /\ fn = "ddm_fpt_full_leak"
  /\ pc = "fill"
  /\ Fill(full_leak_raw(arg, scr, g1, g2, k, k))
  /\ UNCHANGED <<fn, arg, heap, nfree, scr, ret, ub, ser>>

\* ----------------------------------------------------------- ddm_fpt
\* bound_deriv[j - 1] = (bound[j] - bound[j - 1]) / delta_t for j < n, then
\* bound_deriv[n - 1] = bound_deriv[n - 2]
bound_deriv(bound, dt, n, garb) ==
  LET d == [j \in 0 .. n - 2 |-> Div(Sub(bound[j + 1], bound[j]), dt)]
  IN  [j \in 0 .. n - 1 |-> IF j < n - 1 THEN d[j] ELSE Rd(d, n - 1, n - 2, garb)]

\* norm_sqrt_t[j] = 1.0 / sqrt(pi_delta_t_2 * (j + 1.0))
norm_sqrt_t(dt, n) ==
  [j \in 0 .. n - 1 |->
    Div(Num(1), Sqrt(Mul(Mul(PI, Mul(Num(2), dt)), Num(j + 1))))]

\* norm_t[j] = 1.0 / (delta_t * (j + 1.0))
norm_t(dt, n) == [j \in 0 .. n - 1 |-> Div(Num(1), Mul(dt, Num(j + 1)))]

\* c * exp(- 0.5 * diff * diff * norm_t_j) * (deriv - diff * norm_t_j)
KernelT(c, diff, deriv, norm_t_j) ==
  Mul(Mul(c, Exp(Mul(Mul(Mul(Neg(Half), diff), diff), norm_t_j))),
      Sub(deriv, Mul(diff, norm_t_j)))

fpt_cum(a, garb) ==
  [cum_mu |-> [j \in 0 .. a.k_max - 1 |-> CumSum(a.mu, a.delta_t, j)],
   bound_deriv |-> bound_deriv(a.bound, a.delta_t, a.k_max, garb),
   norm_sqrt_t |-> norm_sqrt_t(a.delta_t, a.k_max),
   norm_t |-> norm_t(a.delta_t, a.k_max)]

\* the forward pass of ddm_fpt, ddm_fpt_const_mu and ddm_fpt_w stores c.
\* With one step, bound_deriv[k_max - 2] is read before the array begins.
Forward(f, c) ==
  /\ fn = f
  /\ pc = "cum"
  /\ ub' = ub \cup (IF arg.k_max < 2 THEN {"read out of bounds"} ELSE {})
  /\ \/ /\ arg.k_max < 2
        /\ pc' = "crashed"
        /\ scr' = scr
     \/ /\ \E garb \in (IF arg.k_max < 2 THEN Garbage ELSE {0}) :
             scr' = [n \in Names |->
                      IF n \in DOMAIN c[garb] THEN c[garb][n] ELSE scr[n]]
        /\ pc' = "fill"
  /\ UNCHANGED <<fn, arg, heap, nfree, g1, g2, wr1, wr2, k, ret, ser>>

ddm_fpt_cum == Forward("ddm_fpt", [garb \in Garbage |-> fpt_cum(arg, garb)])

RECURSIVE fpt_raw(_, _, _, _, _, _)
fpt_raw(a, c, G1, G2, kk, n) ==
  LET bound_k == a.bound[kk]
      bound_deriv_k1 == Sub(c.bound_deriv[kk], a.mu[kk])
      bound_deriv_k2 == Sub(Neg(c.bound_deriv[kk]), a.mu[kk])
      cum_mu_k == c.cum_mu[kk]
  IN
  IF n = 0
  THEN [g1 |-> KernelT(Neg(c.norm_sqrt_t[kk]), Sub(bound_k, cum_mu_k),
                       bound_deriv_k1, c.norm_t[kk]),
        g2 |-> KernelT(c.norm_sqrt_t[kk], Sub(Neg(bound_k), cum_mu_k),
                       bound_deriv_k2, c.norm_t[kk])]
  ELSE
    LET p == fpt_raw(a, c, G1, G2, kk, n - 1)
        j == n - 1
        bound_j == a.bound[j]
        cum_mu_k_j == Sub(cum_mu_k, c.cum_mu[j])
        diff1 == Sub(Sub(bound_k, bound_j), cum_mu_k_j)
        diff2 == Sub(Add(bound_k, bound_j), cum_mu_k_j)
        diff3 == Sub(Sub(Neg(bound_k), bound_j), cum_mu_k_j)
        diff4 == Sub(Add(Neg(bound_k), bound_j), cum_mu_k_j)
        norm_t_j == c.norm_t[kk - j - 1]
        w == Mul(a.delta_t, c.norm_sqrt_t[kk - j - 1])
    IN  [g1 |-> Add(p.g1, Mul(w,
                  Add(KernelT(G1[j], diff1, bound_deriv_k1, norm_t_j),
                      KernelT(G2[j], diff2, bound_deriv_k1, norm_t_j)))),
         g2 |-> Sub(p.g2, Mul(w,
                  Add(KernelT(G1[j], diff3, bound_deriv_k2, norm_t_j),
                      KernelT(G2[j], diff4, bound_deriv_k2, norm_t_j))))]

ddm_fpt_fill ==
  /\ fn = "ddm_fpt"
  /\ pc = "fill"
  /\ Fill(fpt_raw(arg, scr, g1, g2, k, k))
  /\ UNCHANGED <<fn, arg, heap, nfree, scr, ret, ub, ser>>

\* -------------------------------------------------- ddm_fpt_const_mu
const_mu_cum(a, garb) ==
  [bound_deriv |-> bound_deriv(a.bound, a.delta_t, a.k_max, garb),
   norm_sqrt_t |-> norm_sqrt_t(a.delta_t, a.k_max),
   norm_t |-> norm_t(a.delta_t, a.k_max)]

ddm_fpt_const_mu_cum ==
  Forward("ddm_fpt_const_mu", [garb \in Garbage |-> const_mu_cum(arg, garb)])

\* g1_k of ddm_fpt_const_mu at step kk after the inner iterations 0 .. n - 1
RECURSIVE const_mu_g1(_, _, _, _, _, _)
const_mu_g1(a, c, G1, G2, kk, n) ==
  LET mu_delta_t == Mul(a.delta_t, a.mu0)
      bound_k == a.bound[kk]
      bound_deriv_k1 == Sub(c.bound_deriv[kk], a.mu0)
      bound_deriv_k2 == Sub(Neg(c.bound_deriv[kk]), a.mu0)
      cum_mu_k == Mul(Num(kk + 1), mu_delta_t)
  IN
  IF n = 0
  THEN KernelT(Neg(c.norm_sqrt_t[kk]), Sub(bound_k, cum_mu_k),
               bound_deriv_k1, c.norm_t[kk])
  ELSE
    LET j == n - 1
        bound_j == a.bound[j]
        cum_mu_k_j == Mul(Num(kk - j), mu_delta_t)
        diff1 == Sub(Sub(bound_k, bound_j), cum_mu_k_j)
        diff2 == Sub(Add(bound_k, bound_j), cum_mu_k_j)
        norm_t_j == c.norm_t[kk - j - 1]
        w == Mul(a.delta_t, c.norm_sqrt_t[kk - j - 1])
    IN  Add(const_mu_g1(a, c, G1, G2, kk, n - 1), Mul(w,
          Add(KernelT(G1[j], diff1, bound_deriv_k1, norm_t_j),
              KernelT(G2[j], diff2, bound_deriv_k2, norm_t_j))))

\* g1_k and g1_k * exp(mu_2 * bound_k), the values clamped and stored
const_mu_raw(a, c, G1, G2, kk) ==
  LET g1_k == const_mu_g1(a, c, G1, G2, kk, kk)
      mu_2 == Mul(Neg(Num(2)), a.mu0)
  IN  [g1 |-> g1_k, g2 |-> Mul(g1_k, Exp(Mul(mu_2, a.bound[kk])))]

ddm_fpt_const_mu_fill ==
  /\ fn = "ddm_fpt_const_mu"
  /\ pc = "fill"
  /\ Fill(const_mu_raw(arg, scr, g1, g2, k))
  /\ UNCHANGED <<fn, arg, heap, nfree, scr, ret, ub, ser>>

\* --------------------------------------------------------- ddm_fpt_w
\* a2[j] = mu[j] * mu[j]
w_a2(a) == [j \in 0 .. a.k_max - 1 |-> Mul(a.mu[j], a.mu[j])]

w_cum(a, garb) ==
  [a2 |-> w_a2(a),
   A |-> [j \in 0 .. a.k_max - 1 |-> CumSum(w_a2(a), a.delta_t, j)],
   bound_deriv |-> bound_deriv(a.bound, a.delta_t, a.k_max, garb)]

ddm_fpt_w_cum == Forward("ddm_fpt_w", [garb \in Garbage |-> w_cum(arg, garb)])

\* the reflection factor exp(k_2 * bound_n), k_2 = -2 * k
MutReflect(a, n) == Exp(Mul(Mul(Num(2), a.kw), a.bound[n]))
w_reflect(a, n) == Exp(Mul(Mul(Neg(Num(2)), a.kw), a.bound[n]))

\* g1_n of ddm_fpt_w at step nn after the inner iterations 0 .. n - 1
RECURSIVE w_g1(_, _, _, _, _, _)
w_g1(a, c, G1, G2, nn, n) ==
  LET bound_n == a.bound[nn]
      a2_n == c.a2[nn]
      A_n == c.A[nn]
      bound_deriv_n == c.bound_deriv[nn]
  IN
  IF n = 0
  THEN
    LET diff1 == Sub(bound_n, Mul(a.kw, A_n))
        sqrt_A_n == Sqrt(Mul(TWOPI, A_n))
        tmp == Sub(bound_deriv_n, Mul(Div(bound_n, A_n), a2_n))
    IN  Mul(Div(Neg(Exp(Div(Mul(Mul(Neg(Half), diff1), diff1), A_n))),
                sqrt_A_n), tmp)
  ELSE
    LET j == n - 1
        bound_j == a.bound[j]
        A_diff == Sub(A_n, c.A[j])
        sqrt_A_diff == Sqrt(Mul(TWOPI, A_diff))
        diff1 == Sub(bound_n, bound_j)
        diff2 == Add(bound_n, bound_j)
        diff1_A == Sub(diff1, Mul(a.kw, A_diff))
        diff2_A == Sub(diff2, Mul(a.kw, A_diff))
    IN  Add(w_g1(a, c, G1, G2, nn, n - 1),
          Mul(Div(a.delta_t, sqrt_A_diff),
            Add(Mul(Mul(G1[j],
                        Exp(Div(Mul(Mul(Neg(Half), diff1_A), diff1_A), A_diff))),
                    Sub(bound_deriv_n, Div(Mul(a2_n, diff1), A_diff))),
                Mul(Mul(G2[j],
                        Exp(Div(Mul(Mul(Neg(Half), diff2_A), diff2_A), A_diff))),
                    Sub(bound_deriv_n, Div(Mul(a2_n, diff2), A_diff))))))

\* g1_n and g1_n * exp(k_2 * bound_n), the values clamped and stored
w_raw(a, c, G1, G2, nn) ==
  LET g1_n == w_g1(a, c, G1, G2, nn, nn)
  IN  [g1 |-> g1_n, g2 |-> Mul(g1_n, w_reflect(a, nn))]

ddm_fpt_w_fill ==
  /\ fn = "ddm_fpt_w"
  /\ pc = "fill"
  /\ Fill(w_raw(arg, scr, g1, g2, k))
  /\ UNCHANGED <<fn, arg, heap, nfree, scr, ret, ub, ser>>

\* ------------------------------------------------------------- mnorm
\* mnorm has no assert: the call starts on whatever it is given
mnorm_call ==
  /\ pc = "idle"
  /\ \E a \in MnormArgs \cup BadMnormArgs :
       /\ arg' = a
       /\ g1' = a.g1
       /\ g2' = a.g2
  /\ fn' = "mnorm"
  /\ pc' = "body"
  /\ UNCHANGED <<heap, nfree, scr, wr1, wr2, k, ret, ub, ser>>

\* if (g[i] < 0) g[i] = 0, for every i
mnorm_clip(g) == [i \in DOMAIN g |-> IF Lt(g[i], 0) THEN 0 ELSE g[i]]

\* ... else g_sum += g[i], for i = 0 .. n - 1
RECURSIVE mnorm_sum(_, _)
mnorm_sum(g, n) ==
  IF n = 0 THEN 0
  ELSE IF Lt(g[n - 1], 0) THEN mnorm_sum(g, n - 1)
  ELSE Add(mnorm_sum(g, n - 1), g[n - 1])

\* p = g1_sum / (g1_sum + g2_sum)
mnorm_p(a) ==
  Div(mnorm_sum(a.g1, a.n), Add(mnorm_sum(a.g1, a.n), mnorm_sum(a.g2, a.n)))

\* what is added to the last elements of g1 and g2
MutAdjust1(a) == Div(mnorm_p(a), a.delta_t)
mnorm_adjust1(a) == Sub(Div(mnorm_p(a), a.delta_t), mnorm_sum(a.g1, a.n))
mnorm_adjust2(a) ==
  Sub(Div(Sub(Num(1), mnorm_p(a)), a.delta_t), mnorm_sum(a.g2, a.n))

\* the two sequences when mnorm returns
mnorm_result(a) ==
  LET last == a.n - 1
      c1 == mnorm_clip(a.g1)
      c2 == mnorm_clip(a.g2)
  IN  [g1 |-> [c1 EXCEPT ![last] = Add(c1[last], mnorm_adjust1(a))],
       g2 |-> [c2 EXCEPT ![last] = Add(c2[last], mnorm_adjust2(a))]]

\* the body of mnorm.  Reading through a NULL buffer and, with n = 0,
\* storing to g1[-1] and g2[-1] are undefined: the call is killed, or the
\* stores land outside the sequences.
mnorm_body ==
  /\ fn = "mnorm"
  /\ pc = "body"
  /\ ub' = ub \cup (IF arg.null # "none" THEN {"null dereference"} ELSE {})
                 \cup (IF arg.n < 1 THEN {"write out of bounds"} ELSE {})
  /\ \/ /\ arg.null # "none" \/ arg.n < 1
        /\ pc' = "crashed"
        /\ UNCHANGED <<g1, g2, ret>>
     \/ /\ arg.null = "none"
        /\ g1' = IF arg.n < 1 THEN g1 ELSE mnorm_result(arg).g1
        /\ g2' = IF arg.n < 1 THEN g2 ELSE mnorm_result(arg).g2
        /\ ret' = "void"
        /\ pc' = "done"
  /\ UNCHANGED <<fn, arg, heap, nfree, scr, wr1, wr2, k, ser>>

\* ----------------------------------------------------- extend_vector
\* extend_vector has no assert: the call goes on to its malloc (g1 holds the
\* caller's v)
extend_vector_call ==
  /\ pc = "idle"
  /\ \E a \in ExtendArgs \cup BadExtendArgs :
       /\ arg' = a
       /\ g1' = a.v
  /\ fn' = "extend_vector"
  /\ pc' = "malloc"
  /\ UNCHANGED <<heap, nfree, scr, g2, wr1, wr2, k, ret, ub, ser>>

\* if (new_v == NULL) return NULL
extend_vector_fail ==
  /\ fn = "extend_vector"
  /\ pc = "malloc"
  /\ k = 1
  /\ heap["new_v"] = "null"
  /\ ret' = "NULL"
  /\ pc' = "done"
  /\ UNCHANGED <<fn, arg, heap, nfree, scr, g1, g2, wr1, wr2, k, ub, ser>>

\* memcpy of MIN(v_size, new_size) elements, then the fill loop
MutCopy(a) ==
  [i \in 0 .. a.new_size - 1 |-> IF i < a.v_size - 1 THEN a.v[i] ELSE a.fill_el]
extend_vector_copy(a) ==
  [i \in 0 .. a.new_size - 1 |->
    IF i < MIN(a.v_size, a.new_size) THEN a.v[i] ELSE a.fill_el]

\* the copy and the return of new_v; a memcpy from a NULL v is undefined
extend_vector_body ==
  /\ fn = "extend_vector"
  /\ pc = "malloc"
  /\ k = 1
  /\ heap["new_v"] = "live"
  /\ LET nullp == arg.null = "v" /\ MIN(arg.v_size, arg.new_size) > 0
     IN  /\ ub' = ub \cup (IF nullp THEN {"null dereference"} ELSE {})
         /\ \/ /\ nullp
               /\ pc' = "crashed"
               /\ UNCHANGED <<scr, ret>>
            \/ /\ ~nullp
               /\ scr' = [scr EXCEPT !["new_v"] = extend_vector_copy(arg)]
               /\ ret' = "new_v"
               /\ pc' = "done"
  /\ UNCHANGED <<fn, arg, heap, nfree, g1, g2, wr1, wr2, k, ser>>

\* ----------------------------------------------------------- series
\* SERIES_ACC, 1e-29: the smallest positive number of the format
SERIES_ACC == 1

Fabs(x) == IF x = NaN THEN NaN ELSE Abs(x)

\* a series function that has returned v
Returned(v) ==
  [f |-> "returned", t |-> 0, w |-> 0, a |-> 0, b |-> 0, tol |-> 0,
   k |-> 0, acc |-> 0, pos |-> 0, val |-> v]

useshorttseries(t, tol) ==
  Lt(Add(Num(2),
         Sqrt(Mul(Mul(Neg(Num(2)), t),
                  Log(Mul(Mul(Num(2), tol), Sqrt(Mul(TWOPI, t))))))),
     Sqrt(Div(Mul(Neg(Num(2)), Log(Mul(Mul(PI, t), tol))), Mul(t, PISQR))))

\* fpt_asymshortt up to its loop: b, tol *= b, t *= 2, k = 1 and the first
\* term of f
asymshortt_start(t, w, tol) ==
  LET b == Div(PowNeg15(t), Sqrt(TWOPI))
      t2 == Mul(t, Num(2))
  IN  [f |-> "fpt_asymshortt", t |-> t2, w |-> w, a |-> 0, b |-> b,
       tol |-> Mul(tol, b), k |-> 1,
       acc |-> Mul(w, Exp(Div(Mul(Neg(w), w), t2))), pos |-> 1, val |-> 0]

\* fpt_asymlongt up to its loop: tol *= PI, f = 0, k = 1
asymlongt_start(t, w, tol) ==
  [f |-> "fpt_asymlongt", t |-> t, w |-> w, a |-> 0, b |-> PI,
   tol |-> Mul(tol, PI), k |-> 1, acc |-> 0, pos |-> 1, val |-> 0]

\* fpt_symseries up to its loop: tol *= b, f = exp(-a), twok = 3
symseries_start(t, a, b, tol) ==
  [f |-> "fpt_symseries", t |-> t, w |-> 0, a |-> a, b |-> b,
   tol |-> Mul(tol, b), k |-> 3, acc |-> Exp(Neg(a)), pos |-> 1, val |-> 0]

\* fpt_asymfastseries: 0 at t = 0, else the series useshorttseries picks
fpt_asymfastseries(t, w, tol) ==
  IF t = 0 THEN Returned(0)
  ELSE IF useshorttseries(t, tol) THEN asymshortt_start(t, w, tol)
  ELSE asymlongt_start(t, w, tol)

\* fpt_symfastseries: 0 at t = 0, else fpt_symseries with the constants of
\* the series useshorttseries picks
fpt_symfastseries(t, tol) ==
  IF t = 0 THEN Returned(0)
  ELSE IF useshorttseries(t, tol)
    THEN symseries_start(t, Div(Num(1), Mul(Num(8), t)),
           Div(Num(1), Sqrt(Mul(Mul(Num(8), PI), Pow3(t)))), tol)
  ELSE symseries_start(t, Div(Mul(t, PISQR), Num(2)), PI, tol)

\* sample arguments of the series functions
SerT == {Scale \div 8, Half, 4 * Scale}
SerW == {Scale \div 4, Half}
SerTol == {SERIES_ACC, Scale \div 8}

\* a call of a series function from outside the library
SeriesCall(f, a, s) ==
  /\ pc = "idle"
  /\ fn' = f
  /\ arg' = a
  /\ ser' = s
  /\ pc' = IF s.f = "returned" THEN "done" ELSE "series"
  /\ ret' = IF s.f = "returned" THEN "double" ELSE ret
  /\ UNCHANGED <<heap, nfree, scr, g1, g2, wr1, wr2, k, ub>>

fpt_asymshortt_call ==
  \E t \in SerT, w \in SerW, tol \in SerTol :
    SeriesCall("fpt_asymshortt", [t |-> t, w |-> w, tol |-> tol],
               asymshortt_start(t, w, tol))

fpt_asymlongt_call ==
  \E t \in SerT, w \in SerW, tol \in SerTol :
    SeriesCall("fpt_asymlongt", [t |-> t, w |-> w, tol |-> tol],
               asymlongt_start(t, w, tol))

fpt_asymfastseries_call ==
  \E t \in SerT \cup {0}, w \in SerW, tol \in SerTol :
    SeriesCall("fpt_asymfastseries", [t |-> t, w |-> w, tol |-> tol],
               fpt_asymfastseries(t, w, tol))

fpt_symfastseries_call ==
  \E t \in SerT \cup {0}, tol \in SerTol :
    SeriesCall("fpt_symfastseries", [t |-> t, w |-> 0, tol |-> tol],
               fpt_symfastseries(t, tol))

\* return f * b to the caller
SeriesReturn(v) ==
  /\ ser' = Returned(v)
  /\ pc' = IF fn = "ddm_fpt_const" THEN "store" ELSE "done"
  /\ ret' = IF fn = "ddm_fpt_const" THEN ret ELSE "double"

\* one term of a series: the int arithmetic of the term overflows (over),
\* which is undefined, or the term incr is added and the loop either
\* returns (exit) or goes on with the locals nxt
SeriesTerm(over, incr, f, exit, nxt) ==
  /\ ub' = ub \cup (IF over THEN {"signed overflow"} ELSE {})
  /\ \/ /\ over
        /\ pc' = "crashed"
        /\ UNCHANGED <<ser, ret>>
     \/ /\ exit
        /\ SeriesReturn(Mul(f, ser.b))
     \/ /\ ~exit
        /\ ser' = nxt
        /\ UNCHANGED <<pc, ret>>
  /\ UNCHANGED <<fn, arg, heap, nfree, scr, g1, g2, wr1, wr2, k>>

\* the loop of fpt_asymshortt, one term a step: c = w + 2 * k (pos = 1),
\* then c = w - 2 * k and k += 1 (pos = 2)
fpt_asymshortt_step ==
  /\ pc = "series"
  /\ ser.f = "fpt_asymshortt"
  /\ LET twok == Wrap(2 * ser.k)
         c == IF ser.pos = 1 THEN Add(ser.w, Num(twok))
              ELSE Sub(ser.w, Num(twok))
         incr == Mul(c, Exp(Div(Mul(Neg(c), c), ser.t)))
         f == Add(ser.acc, incr)
         exit == Lt(Fabs(incr), ser.tol)
         over == ~InInt(2 * ser.k)
                   \/ (ser.pos = 2 /\ ~exit /\ ~InInt(ser.k + 1))
     IN  SeriesTerm(over, incr, f, exit,
           [ser EXCEPT !.acc = f, !.pos = 3 - ser.pos,
              !.k = IF ser.pos = 2 THEN Wrap(ser.k + 1) ELSE ser.k])

\* the loop of fpt_asymlongt, one term a step
fpt_asymlongt_step ==
  /\ pc = "series"
  /\ ser.f = "fpt_asymlongt"
  /\ LET kpi == Mul(Num(ser.k), PI)
         incr == Mul(Mul(Num(ser.k),
                         Exp(Div(Mul(Neg(Mul(kpi, kpi)), ser.t), Num(2)))),
                     Sin(Mul(kpi, ser.w)))
         f == Add(ser.acc, incr)
         exit == Lt(Fabs(incr), ser.tol)
         over == ~exit /\ ~InInt(ser.k + 1)
     IN  SeriesTerm(over, incr, f, exit,
           [ser EXCEPT !.acc = f, !.k = Wrap(ser.k + 1)])

\* the loop of fpt_symseries, one term a step: f -= incr (pos = 1), then
\* f += incr (pos = 2), twok += 2 after each
fpt_symseries_step ==
  /\ pc = "series"
  /\ ser.f = "fpt_symseries"
  /\ LET sq == Wrap(ser.k * ser.k)
         incr == Mul(Num(ser.k), Exp(Mul(Num(0 - sq), ser.a)))
         f == IF ser.pos = 1 THEN Sub(ser.acc, incr) ELSE Add(ser.acc, incr)
         exit == Lt(incr, ser.tol)
         over == ~InInt(ser.k * ser.k) \/ (~exit /\ ~InInt(ser.k + 2))
     IN  SeriesTerm(over, incr, f, exit,
           [ser EXCEPT !.acc = f, !.pos = 3 - ser.pos,
              !.k = Wrap(ser.k + 2)])

\* ------------------------------------------------------ ddm_fpt_const
const_c1(a) == Mul(Num(4), Mul(a.bound0, a.bound0))
const_c2(a) == Div(Mul(a.mu0, a.mu0), Num(2))
const_c3(a) == Mul(a.mu0, a.bound0)
const_c4(a) == Exp(Mul(Neg(Num(2)), const_c3(a)))

const_assert(a) ==
  /\ a.mu0 > 0
  /\ a.bound0 > 0
  /\ a.delta_t > 0
  /\ a.k_max > 0
  /\ a.null = "none"

\* entry of ddm_fpt_const: the assert, then the loop (no scratch array)
ddm_fpt_const_call ==
  /\ pc = "idle"
  /\ \E a \in ConstArgs \cup BadConstArgs :
       /\ arg' = a
       /\ g1' = Outputs(a.k_max)
       /\ g2' = Outputs(a.k_max)
       /\ wr1' = NoWrites(a.k_max)
       /\ wr2' = NoWrites(a.k_max)
       /\ pc' = IF const_assert(a) THEN "loop" ELSE "aborted"
  /\ fn' = "ddm_fpt_const"
  /\ UNCHANGED <<heap, nfree, scr, k, ret, ub, ser>>

\* t of step i: delta_t, then += delta_t after every step
RECURSIVE const_t(_, _)
const_t(a, i) == IF i = 0 THEN a.delta_t ELSE Add(const_t(a, i - 1), a.delta_t)

\* step i calls fpt_symup, which calls fpt_symfastseries(t / c1, SERIES_ACC)
ddm_fpt_const_symup ==
  /\ fn = "ddm_fpt_const"
  /\ pc = "loop"
  /\ LET s == fpt_symfastseries(Div(const_t(arg, k), const_c1(arg)), SERIES_ACC)
     IN  /\ ser' = s
         /\ pc' = IF s.f = "returned" THEN "store" ELSE "series"
  /\ UNCHANGED <<fn, arg, heap, nfree, scr, g1, g2, wr1, wr2, k, ret, ub>>

\* the value fpt_symup returns, given that of the series
fpt_symup(t, c1, c2, c3, series) ==
  Mul(Div(Exp(Sub(c3, Mul(c2, t))), c1), series)

\* g1[i] = MAX(g, 0), g2[i] = MAX(c4 * g, 0), then the next step or the
\* return
ddm_fpt_const_store ==
  /\ fn = "ddm_fpt_const"
  /\ pc = "store"
  /\ LET g == fpt_symup(const_t(arg, k), const_c1(arg), const_c2(arg),
                        const_c3(arg), ser.val)
     IN  /\ g1' = Store(g1, wr1, k, MAX(g, 0)).g
         /\ wr1' = Store(g1, wr1, k, MAX(g, 0)).wr
         /\ g2' = Store(g2, wr2, k, MAX(Mul(const_c4(arg), g), 0)).g
         /\ wr2' = Store(g2, wr2, k, MAX(Mul(const_c4(arg), g), 0)).wr
  /\ k' = k + 1
  /\ pc' = IF k + 1 < arg.k_max THEN "loop" ELSE "done"
  /\ ret' = IF k + 1 < arg.k_max THEN ret ELSE "void"
  /\ UNCHANGED <<fn, arg, heap, nfree, scr, ub, ser>>

\* the release of the scratch arrays and the return of 0
Finish ==
  /\ pc = "free"
  /\ FreeAll(fn)
  /\ ret' = "0"
  /\ pc' = "done"
  /\ UNCHANGED <<fn, arg, scr, g1, g2, wr1, wr2, k, ub, ser>>

Next ==
  \/ ddm_fpt_full_call
  \/ ddm_fpt_full_leak_call
  \/ ddm_fpt_call
  \/ ddm_fpt_const_mu_call
  \/ ddm_fpt_w_call
  \/ Malloc
  \/ AllocFailed
  \/ AllocPassed
  \/ ddm_fpt_full_cum
  \/ ddm_fpt_full_fill
  \/ ddm_fpt_full_leak_cum
  \/ ddm_fpt_full_leak_fill
  \/ ddm_fpt_cum
  \/ ddm_fpt_fill
  \/ ddm_fpt_const_mu_cum
  \/ ddm_fpt_const_mu_fill
  \/ ddm_fpt_w_cum
  \/ ddm_fpt_w_fill
  \/ mnorm_call
  \/ mnorm_body
  \/ extend_vector_call
  \/ extend_vector_fail
  \/ extend_vector_body
  \/ fpt_asymshortt_call
  \/ fpt_asymlongt_call
  \/ fpt_asymfastseries_call
  \/ fpt_symfastseries_call
  \/ fpt_asymshortt_step
  \/ fpt_asymlongt_step
  \/ fpt_symseries_step
  \/ ddm_fpt_const_call
  \/ ddm_fpt_const_symup
  \/ ddm_fpt_const_store
  \/ Finish

Spec == Init /\ [][Next]_vars

\* ------------------------------------------------------------ claims
SeriesFns ==
  {"fpt_asymshortt", "fpt_asymlongt", "fpt_asymfastseries",
   "fpt_symfastseries"}

\* C1: in a solver, once the allocation of any one scratch array has failed,
\* the call does nothing but finish its allocations and return -1, and no
\* element of g1 or g2 is written.
C1_AllocFailure ==
  (fn \in Solvers /\ \E n \in Range(Scratch(fn)) : heap[n] = "null") =>
    /\ pc \in {"malloc", "done"}
    /\ pc = "done" => ret = "-1"
    /\ \A i \in DOMAIN wr1 : wr1[i] = 0 /\ wr2[i] = 0

\* the call has ended: it has returned, or it was killed as it used a scratch
\* array whose allocation had failed
Ended == pc = "done" \/ (pc = "crashed" /\ "null dereference" \in ub)

\* C2: when a solver call has ended, no scratch array is still allocated and
\* each one that was allocated has been released exactly once; a released
\* array is never there while the call still computes.
C2_Released ==
  fn \in Solvers =>
    \A n \in Range(Scratch(fn)) :
      /\ Ended => heap[n] # "live"
      /\ heap[n] = "freed" => (pc = "done" /\ nfree[n] = 1)

\* C3: after a successful call of any of the six solvers every element of
\* g1 and g2 is >= 0.
C3_NonNegative ==
  (fn \in Solvers \cup {"ddm_fpt_const"} /\ pc = "done"
     /\ ret \in {"0", "void"}) =>
    \A i \in 0 .. arg.k_max - 1 : g1[i] >= 0 /\ g2[i] >= 0

\* a successful ddm_fpt_full whose raw value at some step was negative
C3_Clamped ==
  /\ fn = "ddm_fpt_full"
  /\ pc = "done"
  /\ ret = "0"
  /\ \E i \in 0 .. arg.k_max - 1 :
       Lt(full_raw(arg, scr, g1, g2, i, i).g1, 0) /\ g1[i] = 0

\* a call with a null required buffer, a step size or count that is not
\* positive, or a negative leak rate
BadCall ==
  /\ fn \notin SeriesFns \cup {"none"}
  /\ \/ arg.null # "none"
     \/ "delta_t" \in DOMAIN arg /\ arg.delta_t <= 0
     \/ "k_max" \in DOMAIN arg /\ arg.k_max <= 0
     \/ "n" \in DOMAIN arg /\ arg.n <= 0
     \/ "new_size" \in DOMAIN arg /\ arg.new_size <= 0
     \/ "inv_leak" \in DOMAIN arg /\ arg.inv_leak < 0

\* C4: every function called with such arguments is aborted by its assert,
\* before any allocation and any write to an output.
C4_FailFast ==
  BadCall =>
    /\ pc = "aborted"
    /\ \A n \in Names : heap[n] = "unalloc"
    /\ \A i \in DOMAIN wr1 : wr1[i] = 0 /\ wr2[i] = 0

\* C5: ddm_fpt_full_leak with inv_leak = 0, all its scratch arrays allocated,
\* returns the cumulative sums and the g1, g2 of ddm_fpt_full on the same
\* arguments.
C5_LeakZero ==
  (fn = "ddm_fpt_full_leak" /\ arg.inv_leak = 0 /\ pc = "done" /\ ret = "0"
     /\ \A n \in Range(Scratch(fn)) : heap[n] = "freed") =>
    /\ scr["cum_mu"] = full_cum(arg).cum_mu
    /\ scr["cum_sig2"] = full_cum(arg).cum_sig2
    /\ g1 = ddm_fpt_full(arg).g1
    /\ g2 = ddm_fpt_full(arg).g2

\* C6: after ddm_fpt_w returns 0, g2[n] = g1[n] * exp(-2 * k * bound[n]) for
\* every n.
C6_Reflection ==
  (fn = "ddm_fpt_w" /\ pc = "done" /\ ret = "0") =>
    \A n \in 0 .. arg.k_max - 1 :
      g2[n] = Mul(g1[n], Exp(Mul(Mul(Num(0 - 2), arg.kw), arg.bound[n])))

\* a successful ddm_fpt_w with a positive density at one step and a negative
\* raw value, clamped to 0, at another
C6_Reflected ==
  /\ fn = "ddm_fpt_w"
  /\ pc = "done"
  /\ ret = "0"
  /\ \E n \in 0 .. arg.k_max - 1 : g1[n] > 0 /\ g2[n] > 0 /\ g2[n] # g1[n]
  /\ \E n \in 0 .. arg.k_max - 1 :
       Lt(w_g1(arg, scr, g1, g2, n, n), 0) /\ g1[n] = 0

\* mnorm called as its contract asks: buffers, n >= 1, delta_t > 0
MnormValid ==
  fn = "mnorm" /\ arg.null = "none" /\ arg.n >= 1 /\ arg.delta_t > 0

\* the sum of g[0 .. n - 1]
RECURSIVE Sum(_, _)
Sum(g, n) == IF n = 0 THEN 0 ELSE Add(Sum(g, n - 1), g[n - 1])

\* g with its negative elements set to 0
Clipped(g) == [i \in DOMAIN g |-> IF g[i] < 0 THEN 0 ELSE g[i]]

\* sum(g1) / (sum(g1) + sum(g2)) of the clipped arguments of mnorm
MassRatio ==
  Div(Sum(Clipped(arg.g1), arg.n),
      Add(Sum(Clipped(arg.g1), arg.n), Sum(Clipped(arg.g2), arg.n)))

PositiveMass ==
  Add(Sum(Clipped(arg.g1), arg.n), Sum(Clipped(arg.g2), arg.n)) > 0

\* C7: after mnorm returns (here: on sequences of positive total mass), every
\* element of g1 and g2 is >= 0.
C7_NonNegative ==
  (MnormValid /\ PositiveMass /\ pc = "done") =>
    \A i \in 0 .. arg.n - 1 : g1[i] >= 0 /\ g2[i] >= 0

\* C8: after mnorm on sequences of positive total mass, sum(g1) = p / delta_t
\* and sum(g2) = (1 - p) / delta_t, and apart from the last elements only
\* the negative elements have changed (to 0).
C8_Mass ==
  (MnormValid /\ PositiveMass /\ pc = "done") =>
    /\ Sum(g1, arg.n) = Div(MassRatio, arg.delta_t)
    /\ Sum(g2, arg.n) = Div(Sub(Num(1), MassRatio), arg.delta_t)
    /\ \A i \in 0 .. arg.n - 2 :
         g1[i] = Clipped(arg.g1)[i] /\ g2[i] = Clipped(arg.g2)[i]

\* mnorm has returned on two-element sequences of positive mass of which it
\* has removed a negative element
C8_Normalised ==
  /\ MnormValid
  /\ PositiveMass
  /\ pc = "done"
  /\ arg.n = 2
  /\ arg.g1[0] < 0
  /\ g1[0] = 0
  /\ g1[1] # arg.g1[1]

\* C9: extend_vector on a sequence v returns, when its malloc succeeds, a
\* sequence of length new_size that is v[i] for i < min(v_size, new_size)
\* and fill_el from v_size on, and NULL with nothing written when the malloc
\* fails; v is as it was.
C9_Extend ==
  (fn = "extend_vector" /\ arg.null = "none" /\ pc = "done") =>
    /\ heap["new_v"] = "live" =>
         /\ ret = "new_v"
         /\ DOMAIN scr["new_v"] = 0 .. arg.new_size - 1
         /\ \A i \in 0 .. arg.new_size - 1 :
              /\ (i < arg.v_size /\ i < arg.new_size) =>
                   scr["new_v"][i] = arg.v[i]
              /\ i >= arg.v_size => scr["new_v"][i] = arg.fill_el
    /\ heap["new_v"] = "null" => (ret = "NULL" /\ scr["new_v"] = <<>>)
    /\ g1 = arg.v

\* extend_vector has returned a sequence longer than v
C9_Extended ==
  /\ fn = "extend_vector"
  /\ arg.null = "none"
  /\ pc = "done"
  /\ ret = "new_v"
  /\ arg.v_size = 2
  /\ arg.new_size > arg.v_size

\* C10: a series function called with t > 0, tol > 0 and w inside (0, 1)
\* returns: a term falls below the scaled tolerance, and the loop ends,
\* before the loop counter has run through the whole range of int.
C10_Terminates ==
  fn \in SeriesFns => (pc # "crashed" /\ "signed overflow" \notin ub)

\* the raw values of step kk of the filling pass of solver f, computed from
\* the arrays G1 and G2
FillRaw(f, a, c, G1, G2, kk) ==
  CASE f = "ddm_fpt_full" -> full_raw(a, c, G1, G2, kk, kk)
    [] f = "ddm_fpt_full_leak" -> full_leak_raw(a, c, G1, G2, kk, kk)
    [] f = "ddm_fpt" -> fpt_raw(a, c, G1, G2, kk, kk)
    [] f = "ddm_fpt_const_mu" -> const_mu_raw(a, c, G1, G2, kk)
    [] f = "ddm_fpt_w" -> w_raw(a, c, G1, G2, kk)

\* g with every element from index i on made unusable
Poison(g, i) == [j \in DOMAIN g |-> IF j < i THEN g[j] ELSE NaN]

\* C11: in every recursive solver, when the filling pass is at step k, each
\* g1[i], g2[i] with i < k has been stored exactly once and still holds the
\* clamped value of step i, which was computed from the elements below i
\* alone; each element from k on has not been stored and holds what the
\* caller supplied.
C11_FillOrder ==
  (fn \in Solvers /\ pc \in {"cum", "fill", "free", "done", "crashed"}
     /\ ret # "-1") =>
    \A i \in 0 .. arg.k_max - 1 :
      IF i < k
      THEN /\ wr1[i] = 1
           /\ wr2[i] = 1
           /\ g1[i] = MAX(FillRaw(fn, arg, scr, Poison(g1, i), Poison(g2, i),
                                  i).g1, 0)
           /\ g2[i] = MAX(FillRaw(fn, arg, scr, Poison(g1, i), Poison(g2, i),
                                  i).g2, 0)
      ELSE /\ wr1[i] = 0
           /\ wr2[i] = 0
           /\ g1[i] = Stale
           /\ g2[i] = Stale

\* a successful ddm_fpt of three or more steps whose last step added to a
\* positive density of the first step
C11_Filled ==
  /\ fn = "ddm_fpt"
  /\ pc = "done"
  /\ ret = "0"
  /\ arg.k_max >= 3
  /\ g1[0] > 0
  /\ g1[arg.k_max - 1] > 0
  /\ \A i \in 0 .. arg.k_max - 1 : wr1[i] = 1 /\ wr2[i] = 1

\* ddm_fpt_full_leak has done its precomputation pass with all four scratch
\* arrays allocated
LeakPrecomputed ==
  /\ fn = "ddm_fpt_full_leak"
  /\ pc \in {"fill", "free", "done", "crashed"}
  /\ \A n \in Range(full_leak_scratch) : heap[n] # "null"

\* x and y differ by no more than the rounding of n products
Near(x, y, n) == x # NaN /\ y # NaN /\ Abs(x - y) <= n

\* C12: after the precomputation pass of ddm_fpt_full_leak, for every k in
\* 0 .. k_max - 1, disc[k] is the (k+1)-th power of exp(-inv_leak * delta_t)
\* and disc2[k] is, up to the rounding of the products, the (k+1)-th power of
\* exp(-2 * inv_leak * delta_t).
C12_Discounts ==
  LeakPrecomputed =>
    /\ pc # "crashed"
    /\ \A kk \in 0 .. arg.k_max - 1 :
         /\ scr["disc"][kk] = Discount(exp_leak(arg), exp_leak(arg), kk)
         /\ Near(scr["disc2"][kk],
                 Discount(exp2_leak(arg), exp2_leak(arg), kk), kk + 2)

\* C14: in ddm_fpt_full_leak with all four scratch arrays allocated, every
\* index used on cum_mu, cum_sig2, disc and disc2 lies in 0 .. k_max - 1, in
\* the copy disc2[j] = disc[2 * j + 1] and in the kernel lookups of every
\* step, and no element is read that the call has not written.
C14_InBounds ==
  LeakPrecomputed =>
    /\ full_leak_copy_reads(arg) \subseteq 0 .. arg.k_max - 1
    /\ \A kk \in 0 .. arg.k_max - 1 :
         full_leak_kernel_reads(kk) \subseteq 0 .. arg.k_max - 1
    /\ "read out of bounds" \notin ub
    /\ pc # "crashed"

\* ddm_fpt, ddm_fpt_const_mu or ddm_fpt_w has done its forward pass
BoundPrecomputed ==
  /\ fn \in {"ddm_fpt", "ddm_fpt_const_mu", "ddm_fpt_w"}
  /\ pc \in {"fill", "free", "done", "crashed"}
  /\ ret # "-1"

\* C13: in ddm_fpt, ddm_fpt_const_mu and ddm_fpt_w, for every k_max >= 1,
\* after the forward pass bound_deriv[j] = (bound[j+1] - bound[j]) / delta_t
\* for j in 0 .. k_max - 2, bound_deriv[k_max - 1] is the derivative already
\* computed for the point k_max - 2, and no element was read undefined.
C13_BoundDeriv ==
  BoundPrecomputed =>
    /\ pc # "crashed"
    /\ "read out of bounds" \notin ub
    /\ arg.k_max - 2 \in 0 .. arg.k_max - 1
    /\ \A j \in 0 .. arg.k_max - 2 :
         scr["bound_deriv"][j] =
           Div(Sub(arg.bound[j + 1], arg.bound[j]), arg.delta_t)
    /\ scr["bound_deriv"][arg.k_max - 1] = scr["bound_deriv"][arg.k_max - 2]

\* the residual variance cum_sig2_diff_j that step kk of solver f divides by
\* and takes the square root of, for the earlier step j
ResidualVar(f, c, kk, j) ==
  IF f = "ddm_fpt_full"
  THEN Sub(c.cum_sig2[kk], c.cum_sig2[j])
  ELSE Sub(c.cum_sig2[kk], Mul(c.disc2[kk - j - 1], c.cum_sig2[j]))

\* a general solver has done its forward pass, all scratch arrays allocated,
\* on positive variances, a positive step size and a leak rate >= 0
PositiveVariances ==
  /\ fn \in {"ddm_fpt_full", "ddm_fpt_full_leak"}
  /\ pc \in {"fill", "free", "done"}
  /\ ret # "-1"
  /\ \A n \in Range(Scratch(fn)) : heap[n] # "null"
  /\ \A i \in 0 .. arg.k_max - 1 : arg.sig2[i] > 0
  /\ arg.delta_t > 0
  /\ arg.inv_leak >= 0

\* C15: on such arguments every divisor of the general solvers is > 0:
\* cum_sig2[k] for every k and the residual variance of every pair j < k.
C15_PositiveDivisors ==
  PositiveVariances =>
    \A kk \in 0 .. arg.k_max - 1 :
      /\ Gt(scr["cum_sig2"][kk], 0)
      /\ \A j \in 0 .. kk - 1 : Gt(ResidualVar(fn, scr, kk, j), 0)

\* the scratch arrays ddm_fpt would hold on the arguments of this
\* ddm_fpt_const_mu call, mu[i] = mu for every i
AsFpt(a, c) ==
  [cum_mu |-> [j \in 0 .. a.k_max - 1 |-> CumSum(a.mu, a.delta_t, j)],
   bound_deriv |-> c.bound_deriv,
   norm_sqrt_t |-> c.norm_sqrt_t,
   norm_t |-> c.norm_t]

\* C16: at every step k of ddm_fpt_const_mu, the raw g1 it computes from the
\* earlier g1[j], g2[j] is the raw g1 that step k of ddm_fpt computes from the
\* same earlier values with mu[i] = mu for every i.
C16_SameStep ==
  (fn = "ddm_fpt_const_mu" /\ pc = "fill"
     /\ \A i \in 0 .. arg.k_max - 1 : arg.mu[i] = arg.mu0) =>
    const_mu_g1(arg, scr, g1, g2, k, k) =
      fpt_raw(arg, AsFpt(arg, scr), g1, g2, k, k).g1

====
